---------------------------- MODULE Spec2Model ----------------------------
(***************************************************************************)
(* The scanning pipeline of pokemon-scanner: the useScanner hook           *)
(* (hooks/useScanner), the cardDetector and ocrProcessor singletons it     *)
(* drives, and the React machinery the hook relies on (state, refs,        *)
(* closures captured per render, effects, requestAnimationFrame); and the  *)
(* matching of pokemonIdentifier (identifyPokemon, calculateSimilarity,    *)
(* levenshteinDistance), called on its own.                                *)
(*                                                                         *)
(* A callback created by useCallback closes over the processState and the  *)
(* result of the render that created it.  A frame scheduled with           *)
(* requestAnimationFrame(scanFrame) therefore carries that closure, and    *)
(* scanFrame reschedules the very same closure (line 279 names the const   *)
(* of its own render).  Controller calls and effects use the callbacks of  *)
(* the latest committed render.  A state update, the re-render it causes   *)
(* and the effects of that render are one step.                            *)
(***************************************************************************)
EXTENDS Integers, Sequences, FiniteSets, TLC

Null == "null"

(* ------------------------- program constants -------------------------- *)
detectionThrottleMs == 100
ocrThrottleMs == 2000
identificationThrottleMs == 2000
cardDetector_detectionThrottleMs == 100
ocrProcessor_ocrThrottleMs == 2000

(* ------------------------------ bounds -------------------------------- *)
\* Date.now() at mount: far beyond every throttle interval, as on a real clock.
Epoch == 3000
\* Scheduled plus suspended ticks of scanFrame alive at once.
MaxLoops == 2

\* The instants after mount, in ms, at which Date.now() is sampled: two reads at
\* one instant are less than an interval apart, and the others lie at and just
\* beyond the short and the long throttle intervals.
Instants == {0, 100, 150, 2000, 2050}

(* --------------------------- value domains ---------------------------- *)
\* Outcomes of cardDetector.detectCards: lists of boxes (width, height).
boxA == [width |-> 2, height |-> 3]
boxB == [width |-> 3, height |-> 2]
DetectionLists == {<<>>, <<boxB, boxA>>}
\* What happens inside the try block of detectCards: loadModel or model.detect
\* throws, or the filtered predictions are `cards`.
DetectOutcomes ==
    {[threw |-> FALSE, cards |-> d] : d \in DetectionLists}
        \cup {[threw |-> TRUE, cards |-> <<boxB, boxA>>]}
\* Outcomes of ocrProcessor.extractText other than null.
OcrResults == {"ocrA"}
\* Outcomes of pokemonIdentifier.identifyPokemon other than null.
PokemonMatches == {"matchA"}

VARIABLES
    processState,            \* useState<ScannerProcessState>
    result,                  \* useState<ScannerResult>, the published snapshot
    animationFrameRef,       \* useRef<number | null>, 0 for null
    lastDetectionTime,       \* useRef<number>(0)
    lastOcrTime,             \* useRef<number>(0)
    lastIdentificationTime,  \* useRef<number>(0)
    autoStart,               \* opts.autoStart
    initPc,                  \* where initializeServices is
    frames,                  \* callbacks scheduled by requestAnimationFrame
    inflight,                \* ticks of scanFrame suspended in an await
    cardDetector_lastDetectionTime,  \* CardDetector.lastDetectionTime
    ocrProcessor_lastOcrTime,        \* OcrProcessor.lastOcrTime
    clock,                   \* Date.now()
    call,                    \* a call of pokemonIdentifier checked on its own
    obs,                     \* history of the run, read only by the properties
    watch                    \* which part of the history this run records

vars == <<processState, result, animationFrameRef, lastDetectionTime, lastOcrTime,
          lastIdentificationTime, autoStart, initPc, frames, inflight,
          cardDetector_lastDetectionTime, ocrProcessor_lastOcrTime, clock, call,
          obs, watch>>

\* The mutable state as one record, so that a handler is a function on it.
Heap ==
    [processState |-> processState, result |-> result,
     animationFrameRef |-> animationFrameRef,
     lastDetectionTime |-> lastDetectionTime, lastOcrTime |-> lastOcrTime,
     lastIdentificationTime |-> lastIdentificationTime,
     frames |-> frames, inflight |-> inflight,
     cardDetector_lastDetectionTime |-> cardDetector_lastDetectionTime,
     ocrProcessor_lastOcrTime |-> ocrProcessor_lastOcrTime,
     obs |-> [obs EXCEPT !.detectorFailed = FALSE]]

Alive(h) == Cardinality(h.frames) + Cardinality(h.inflight)

(* ------------------------------ history ------------------------------- *)
\* About the tick that published the current snapshot: byTick (a tick published
\* it), detRan / ocrRan / idRan (the detector, the recognizer, the matcher was
\* invoked by that tick), stoppedInFlight (stopScanning was called while that
\* tick was suspended), prevHadText (the snapshot it replaced held a text or a
\* match), closureHadText (so did the result the tick closes over).
\* controllerStopped: the controller's last call was stopScanning;
\* tickAfterStop: a tick has begun since.
\* fresh*: what the last run of each stage produced, <<v>>, or <<>> before the
\* first run; *Carried: the tick that
\* published the snapshot ran the stage, or no run of the stage came before it,
\* or it published what the last run had produced.
\* remembered: one earlier snapshot.
\* identifyAt: Date.now() at the last call of identifyPokemon; the *Ok flags:
\* no two successive throttle stamps (Stamp) or invocations (Gap) so far were
\* closer than the interval; overlapped: two ticks have been alive at once.
\* startIgnored: startScanning has been called outside "ready".
\* detectorFailed: the step just taken ended a tick whose detector call failed.
\* extractionKept: no tick so far whose recognizer call failed, with a card in
\* view and a text in the snapshot before it, published another text or match
\* than that snapshot held.
InitialResult ==
    [status |-> "no-card", detections |-> <<>>, ocrResult |-> Null,
     pokemonMatch |-> Null]

InitialObs ==
    [byTick |-> FALSE, detRan |-> FALSE, ocrRan |-> FALSE, idRan |-> FALSE,
     stoppedInFlight |-> FALSE, prevHadText |-> FALSE, closureHadText |-> FALSE,
     controllerStopped |-> FALSE, tickAfterStop |-> FALSE,
     freshDetections |-> <<>>, freshOcr |-> <<>>, freshMatch |-> <<>>,
     detectionsCarried |-> TRUE, ocrCarried |-> TRUE, matchCarried |-> TRUE,
     remembered |-> InitialResult,
     identifyAt |-> 0, identifyGapOk |-> TRUE, identifyStampOk |-> TRUE,
     ocrStampOk |-> TRUE, recognizeGapOk |-> TRUE,
     detectStampOk |-> TRUE, detectGapOk |-> TRUE, overlapped |-> FALSE,
     startIgnored |-> FALSE, detectorFailed |-> FALSE, extractionKept |-> TRUE]

Watched ==
    CASE watch = "publish" ->
           {"byTick", "detRan", "ocrRan", "idRan", "prevHadText",
            "closureHadText"}
      [] watch = "control" ->
           {"stoppedInFlight", "controllerStopped", "tickAfterStop"}
      [] watch = "fresh" ->
           {"freshDetections", "freshOcr", "freshMatch",
            "detectionsCarried", "ocrCarried", "matchCarried"}
      [] watch = "timing" ->
           {"identifyAt", "identifyGapOk", "identifyStampOk", "ocrStampOk",
            "recognizeGapOk", "detectStampOk", "detectGapOk", "overlapped"}
      [] watch = "lifecycle" ->
           {"startIgnored", "detectorFailed", "extractionKept"}
      [] watch = "live" -> {}
      [] OTHER -> {"remembered"}

\* The history this run records; the rest stays as it was at mount.
MaskObs(o) ==
    [k \in DOMAIN o |-> IF k \in Watched THEN o[k] ELSE InitialObs[k]]

MaskTick(t) ==
    [t EXCEPT !.stopped = IF watch = "control" THEN @ ELSE FALSE,
              !.detRan = IF watch \in {"publish", "fresh"} THEN @ ELSE FALSE,
              !.ocrRan = IF watch \in {"publish", "fresh"} THEN @ ELSE FALSE]

Commit(h) ==
    /\ Alive(h) <= MaxLoops
    /\ processState' = h.processState
    /\ result' = h.result
    /\ animationFrameRef' = h.animationFrameRef
    /\ lastDetectionTime' = h.lastDetectionTime
    /\ lastOcrTime' = h.lastOcrTime
    /\ lastIdentificationTime' = h.lastIdentificationTime
    /\ frames' = h.frames
    /\ inflight' = {MaskTick(t) : t \in h.inflight}
    /\ cardDetector_lastDetectionTime' = h.cardDetector_lastDetectionTime
    /\ ocrProcessor_lastOcrTime' = h.ocrProcessor_lastOcrTime
    /\ LET o == [h.obs EXCEPT !.overlapped = @ \/ Alive(h) > 1]
       IN  \/ obs' = MaskObs(o)
           \/ /\ watch = "status"
              /\ obs' = MaskObs([o EXCEPT !.remembered = h.result])
    /\ UNCHANGED <<watch, call>>

(* ------------------------------ the hook ------------------------------ *)
\* A handle no scheduled callback holds.
FreshHandle(fs) ==
    CHOOSE i \in 1..(Cardinality(fs) + 1) :
        /\ \A f \in fs : f.id # i
        /\ \A j \in 1..(i - 1) : \E f \in fs : f.id = j

\* animationFrameRef.current = requestAnimationFrame(scanFrame), scanFrame being
\* the callback that closes over `closure`.
RequestAnimationFrame(h, closure) ==
    LET id == FreshHandle(h.frames)
    IN  [h EXCEPT !.frames = @ \cup {[id |-> id, closure |-> closure]},
                  !.animationFrameRef = id]

\* What scanFrame reads of the result it closes over.
Captured(r) ==
    [detections |-> r.detections, ocrResult |-> r.ocrResult,
     pokemonMatch |-> r.pokemonMatch]

\* Mutant: startScanning without its guard.
StartScanning_Unguarded(h) ==
    RequestAnimationFrame(
        [h EXCEPT !.processState = "scanning"],
        [processState |-> h.processState, result |-> Captured(h.result)])
StartScanning(h) ==
    IF h.processState = "ready" /\ h.animationFrameRef = 0
    THEN RequestAnimationFrame(
             [h EXCEPT !.processState = "scanning"],
             [processState |-> h.processState, result |-> Captured(h.result)])
    ELSE h

\* The auto-start effect, run after a render in which one of its dependencies
\* (processState, startScanning) changed.
AutoStartEffect(h, depsChanged) ==
    IF depsChanged /\ h.processState = "ready" /\ autoStart
    THEN StartScanning(h)
    ELSE h

StopScanning(h) ==
    LET h1 == [h EXCEPT !.frames = {f \in @ : f.id # h.animationFrameRef},
                        !.animationFrameRef = 0,
                        !.processState = "ready",
                        !.inflight = {[t EXCEPT !.stopped = TRUE] : t \in @}]
    IN  AutoStartEffect(h1, h.processState # "ready")

DetectionThrottlePasses(now, last) == now - last > detectionThrottleMs
\* Mutant: the extraction throttle lets every tick through.
OcrThrottlePasses_Always(now, last) == now - last >= 0
OcrThrottlePasses(now, last) == now - last > ocrThrottleMs
\* Mutant: the matcher is never due.
IdentificationThrottlePasses_Never(now, last) == FALSE
IdentificationThrottlePasses(now, last) == now - last > identificationThrottleMs

\* Mutant: the catch block of detectCards hands on what it had.
DetectCardsReturns_NoCatch(o) == o.cards
\* What detectCards returns once it has passed its throttle.
DetectCardsReturns(o) == IF o.threw THEN <<>> ELSE o.cards

\* The early return of CardDetector.detectCards and of OcrProcessor.extractText.
DetectCardsRefuses(now, last) == now - last < cardDetector_detectionThrottleMs
ExtractTextRefuses(now, last) == now - last < ocrProcessor_ocrThrottleMs

\* Mutant: the status starts as "card-detected".
CardStatus_NeverNoCard(detections) == "card-detected"
CardStatus(detections) ==
    IF Len(detections) > 0 THEN "card-detected" ELSE "no-card"

\* Mutant: the reset is guarded by && instead of ||.
NoCardReset_BothOnly(ocrResult, pokemonMatch) ==
    IF ocrResult # Null /\ pokemonMatch # Null
    THEN [ocrResult |-> Null, pokemonMatch |-> Null]
    ELSE [ocrResult |-> ocrResult, pokemonMatch |-> pokemonMatch]
NoCardReset(ocrResult, pokemonMatch) ==
    IF ocrResult # Null \/ pokemonMatch # Null
    THEN [ocrResult |-> Null, pokemonMatch |-> Null]
    ELSE [ocrResult |-> ocrResult, pokemonMatch |-> pokemonMatch]

\* Mutant: whatever the matcher answers counts as an identification.
IdentificationStatus_AlwaysIdentified(pokemonMatch) == "identified"
\* Mutant: whatever the matcher answers counts as a failure.
IdentificationStatus_AlwaysFailed(pokemonMatch) == "identification-failed"
\* Mutant: the two branches of the conditional are swapped.
IdentificationStatus_Swapped(pokemonMatch) ==
    IF pokemonMatch # Null THEN "identification-failed" ELSE "identified"
IdentificationStatus(pokemonMatch) ==
    IF pokemonMatch # Null THEN "identified" ELSE "identification-failed"

\* Mutant: the tick ends without scheduling the next one.
Reschedule_Never(h, closure) == h
\* The last statement of scanFrame.
Reschedule(h, closure) == RequestAnimationFrame(h, closure)

\* setResult({...}) followed by the rescheduling of the same closure, and the
\* render the update causes.
Publish(h, tk, status, detections, ocrResult, pokemonMatch, ocrRan, idRan) ==
    LET snapshot == [status |-> status, detections |-> detections,
                     ocrResult |-> ocrResult, pokemonMatch |-> pokemonMatch]
        h1 == [h EXCEPT !.result = snapshot,
                        !.obs.byTick = TRUE,
                        !.obs.detRan = tk.detRan,
                        !.obs.ocrRan = ocrRan,
                        !.obs.idRan = idRan,
                        !.obs.stoppedInFlight = tk.stopped,
                        !.obs.prevHadText =
                            h.result.ocrResult # Null \/ h.result.pokemonMatch # Null,
                        !.obs.closureHadText =
                            \/ tk.closure.result.ocrResult # Null
                            \/ tk.closure.result.pokemonMatch # Null,
                        !.obs.detectionsCarried =
                            \/ tk.detRan
                            \/ h.obs.freshDetections \in {<<>>, <<detections>>},
                        !.obs.ocrCarried =
                            \/ detections = <<>> \/ ocrRan
                            \/ h.obs.freshOcr \in {<<>>, <<ocrResult>>},
                        !.obs.matchCarried =
                            \/ detections = <<>> \/ idRan
                            \/ h.obs.freshMatch \in {<<>>, <<pokemonMatch>>},
                        !.obs.extractionKept =
                            @ /\ ( /\ ocrRan /\ ocrResult = Null
                                   /\ detections # <<>>
                                   /\ h.result.ocrResult # Null
                                   => /\ ocrResult = h.result.ocrResult
                                      /\ pokemonMatch = h.result.pokemonMatch )]
    IN  AutoStartEffect(Reschedule(h1, tk.closure), TRUE)

\* Lines 229-244, once extractText has returned ocrResult.
AfterExtract(h, tk, ocrResult, ocrRan) ==
    IF ocrResult # Null
       /\ IdentificationThrottlePasses(tk.now, h.lastIdentificationTime)
    THEN [h EXCEPT !.lastIdentificationTime = tk.now,
                   !.inflight = @ \cup {[tk EXCEPT !.pc = "identifyPokemon",
                                                   !.ocrResult = ocrResult,
                                                   !.ocrRan = ocrRan]},
                   !.obs.identifyGapOk =
                       @ /\ (h.obs.identifyAt = 0
                             \/ clock - h.obs.identifyAt >= identificationThrottleMs),
                   !.obs.identifyStampOk =
                       @ /\ tk.now - h.lastIdentificationTime > identificationThrottleMs,
                   !.obs.identifyAt = clock]
    ELSE Publish(h, tk, "identifying", tk.detections, ocrResult,
                 tk.closure.result.pokemonMatch, ocrRan, FALSE)

\* Mutant: the card branch is entered whatever the detections are.
HasCard_Always(detections) == TRUE
\* Line 205.
HasCard(detections) == Len(detections) > 0

\* Lines 200-252, once the detections of the tick are known.
AfterDetect(h, tk0, detections) ==
    LET tk == [tk0 EXCEPT !.detections = detections]
    IN  IF HasCard(detections)
        THEN IF OcrThrottlePasses(tk.now, h.lastOcrTime)
             THEN LET h1 == [h EXCEPT !.lastOcrTime = tk.now,
                                      !.obs.ocrStampOk =
                                          @ /\ tk.now - h.lastOcrTime > ocrThrottleMs]
                  IN  IF ExtractTextRefuses(clock, h.ocrProcessor_lastOcrTime)
                      THEN AfterExtract(h1, tk, Null, FALSE)
                      ELSE [h1 EXCEPT
                               !.ocrProcessor_lastOcrTime = clock,
                               !.obs.recognizeGapOk =
                                   @ /\ clock - h.ocrProcessor_lastOcrTime
                                            >= ocrThrottleMs,
                               !.inflight = @ \cup {[tk EXCEPT !.pc = "extractText"]}]
             ELSE Publish(h, tk, CardStatus(detections), detections,
                          tk.closure.result.ocrResult,
                          tk.closure.result.pokemonMatch, FALSE, FALSE)
        ELSE LET r == NoCardReset(tk.closure.result.ocrResult,
                                  tk.closure.result.pokemonMatch)
             IN  Publish(h, tk, CardStatus(detections), detections,
                         r.ocrResult, r.pokemonMatch, FALSE, FALSE)

\* scanFrame from its start to its first suspension (or to its end).
ScanFrame(h, f, videoReady) ==
    LET h0 == [h EXCEPT !.frames = @ \ {f}]
        tk == [closure |-> f.closure, pc |-> "start", now |-> clock,
               detections |-> <<>>, ocrResult |-> Null,
               detRan |-> FALSE, ocrRan |-> FALSE, stopped |-> FALSE]
    IN  IF ~videoReady \/ f.closure.processState # "ready"
        THEN RequestAnimationFrame(h0, f.closure)
        ELSE IF DetectionThrottlePasses(clock, h.lastDetectionTime)
             THEN LET h1 == [h0 EXCEPT !.lastDetectionTime = clock,
                                       !.obs.detectStampOk =
                                           @ /\ clock - h.lastDetectionTime
                                                    > detectionThrottleMs]
                  IN  IF DetectCardsRefuses(clock, h.cardDetector_lastDetectionTime)
                      THEN AfterDetect(h1, tk, <<>>)
                      ELSE [h1 EXCEPT
                               !.cardDetector_lastDetectionTime = clock,
                               !.obs.detectGapOk =
                                   @ /\ clock - h.cardDetector_lastDetectionTime
                                            >= detectionThrottleMs,
                               !.inflight = @ \cup {[tk EXCEPT !.pc = "detectCards",
                                                               !.detRan = TRUE]}]
             ELSE AfterDetect(h0, tk, f.closure.result.detections)

(* ------------------------------ actions ------------------------------- *)
Mount(w) ==
    /\ watch = w
    /\ processState = "initializing"
    /\ result = InitialResult
    /\ animationFrameRef = 0
    /\ lastDetectionTime = 0
    /\ lastOcrTime = 0
    /\ lastIdentificationTime = 0
    /\ autoStart \in BOOLEAN
    /\ initPc = "awaiting"
    /\ frames = {}
    /\ inflight = {}
    /\ cardDetector_lastDetectionTime = 0
    /\ ocrProcessor_lastOcrTime = 0
    /\ clock = Epoch
    /\ obs = InitialObs

\* initializeServices runs to its end: the three awaited initializations
\* succeed, or the first that fails throws.
InitializeServices ==
    /\ initPc = "awaiting"
    /\ \E loadModel, ocrInitialize, identifierInitialize \in BOOLEAN :
         LET ok == loadModel /\ ocrInitialize /\ identifierInitialize
             h == Heap
             h1 == [h EXCEPT !.processState = IF ok THEN "ready" ELSE "error"]
         IN  /\ initPc' = IF ok THEN "done" ELSE "failed"
             /\ Commit(AutoStartEffect(h1, h1.processState # h.processState))
    /\ UNCHANGED <<autoStart, clock>>

\* The controller calls startScanning.
ControllerStart ==
    /\ Commit([StartScanning(Heap) EXCEPT
                   !.obs.controllerStopped = FALSE,
                   !.obs.tickAfterStop = FALSE,
                   !.obs.startIgnored = @ \/ processState # "ready"])
    /\ UNCHANGED <<autoStart, initPc, clock>>

\* The controller calls stopScanning.
ControllerStop ==
    /\ Commit([StopScanning(Heap) EXCEPT !.obs.controllerStopped = TRUE,
                                         !.obs.tickAfterStop = FALSE])
    /\ UNCHANGED <<autoStart, initPc, clock>>

\* The browser runs a scheduled callback, the video being ready or not as
\* `readiness` allows.
TickBeginOn(readiness) ==
    /\ \E f \in frames : \E videoReady \in readiness :
         Commit(ScanFrame(
             [Heap EXCEPT !.obs.tickAfterStop = @ \/ obs.controllerStopped],
             f, videoReady))
    /\ UNCHANGED <<autoStart, initPc, clock>>

\* The browser runs a scheduled callback.
TickBegin == TickBeginOn(BOOLEAN)

\* await cardDetector.detectCards(...) resolves with one of `outcomes`.
DetectCardsResolvesWith(outcomes) ==
    /\ \E tk \in inflight : \E o \in outcomes :
         /\ tk.pc = "detectCards"
         /\ LET d == DetectCardsReturns(o)
            IN  Commit(AfterDetect(
                    [Heap EXCEPT !.inflight = @ \ {tk},
                                 !.obs.freshDetections = <<d>>,
                                 !.obs.detectorFailed = o.threw],
                    tk, d))
    /\ UNCHANGED <<autoStart, initPc, clock>>

\* await cardDetector.detectCards(...) resolves.
DetectCardsResolves == DetectCardsResolvesWith(DetectOutcomes)

\* await ocrProcessor.extractText(...) resolves with one of `results`.
ExtractTextResolvesWith(results) ==
    /\ \E tk \in inflight : \E r \in results :
         /\ tk.pc = "extractText"
         /\ Commit(AfterExtract(
                [Heap EXCEPT !.inflight = @ \ {tk}, !.obs.freshOcr = <<r>>],
                tk, r, TRUE))
    /\ UNCHANGED <<autoStart, initPc, clock>>

\* await ocrProcessor.extractText(...) resolves.
ExtractTextResolves == ExtractTextResolvesWith(OcrResults \cup {Null})

\* await pokemonIdentifier.identifyPokemon(...) resolves with one of `matches`.
IdentifyPokemonResolvesWith(matches) ==
    /\ \E tk \in inflight : \E m \in matches :
         /\ tk.pc = "identifyPokemon"
         /\ Commit(Publish(
                [Heap EXCEPT !.inflight = @ \ {tk}, !.obs.freshMatch = <<m>>],
                tk, IdentificationStatus(m), tk.detections, tk.ocrResult, m,
                tk.ocrRan, TRUE))
    /\ UNCHANGED <<autoStart, initPc, clock>>

\* await pokemonIdentifier.identifyPokemon(...) resolves.
IdentifyPokemonResolves == IdentifyPokemonResolvesWith(PokemonMatches \cup {Null})

\* Time passes.
Advance ==
    /\ \E i \in Instants :
         /\ Epoch + i > clock
         /\ clock' = Epoch + i
    /\ UNCHANGED <<processState, result, animationFrameRef, lastDetectionTime,
                   lastOcrTime, lastIdentificationTime, autoStart, initPc, frames,
                   inflight, cardDetector_lastDetectionTime,
                   ocrProcessor_lastOcrTime, call, obs, watch>>

Next ==
    \/ InitializeServices
    \/ ControllerStart
    \/ ControllerStop
    \/ TickBegin
    \/ DetectCardsResolves
    \/ ExtractTextResolves
    \/ IdentifyPokemonResolves
    \/ Advance

\* No call of pokemonIdentifier is being looked at on its own.
NoCall == [op |-> "none"]

Init == Mount("publish") /\ call = NoCall
InitControl == Mount("control") /\ call = NoCall
InitFresh == Mount("fresh") /\ call = NoCall
InitTiming == Mount("timing") /\ call = NoCall
InitStatus == Mount("status") /\ call = NoCall
InitLifecycle == Mount("lifecycle") /\ call = NoCall

Spec == Init /\ [][Next]_vars
SpecControl == InitControl /\ [][Next]_vars
SpecFresh == InitFresh /\ [][Next]_vars
SpecTiming == InitTiming /\ [][Next]_vars
SpecStatus == InitStatus /\ [][Next]_vars
SpecLifecycle == InitLifecycle /\ [][Next]_vars

\* The scanner in front of a card that every stage recognizes: the video is
\* ready at every tick, every run of the detector reports the card, every run
\* of the recognizer returns its text, and the matcher finds the name.
FrameAvailableTick == TickBeginOn({TRUE})
DetectorReportsCard ==
    DetectCardsResolvesWith({o \in DetectOutcomes : ~o.threw /\ o.cards # <<>>})
ExtractorReadsName == ExtractTextResolvesWith(OcrResults)
MatcherFindsName == IdentifyPokemonResolvesWith(PokemonMatches)

\* The controller starts the scanner and never stops it.
NextLive ==
    \/ InitializeServices
    \/ ControllerStart
    \/ FrameAvailableTick
    \/ DetectorReportsCard
    \/ ExtractorReadsName
    \/ MatcherFindsName
    \/ Advance

\* The browser runs every callback it has scheduled, and every awaited
\* capability call resolves.
Fairness ==
    /\ WF_vars(FrameAvailableTick)
    /\ WF_vars(DetectorReportsCard)
    /\ WF_vars(ExtractorReadsName)
    /\ WF_vars(MatcherFindsName)

InitLive == Mount("live") /\ call = NoCall
SpecLive == InitLive /\ [][NextLive]_vars /\ Fairness

(* ------------------------- pokemonIdentifier -------------------------- *)
\* Strings are sequences of one-character strings.  Numbers that are fractions
\* in the code (similarities, thresholds) are pairs <<numerator, denominator>>
\* with a positive denominator.  With the strings and thresholds below the
\* floating-point comparisons of the code agree with the comparisons of the
\* fractions: 1/2 and 3/4 and the similarities k/4 are exact doubles, and no
\* similarity equals 7/10.
Lower(c) == IF c = "A" THEN "a" ELSE c
toLowerCase(str) == [i \in 1..Len(str) |-> Lower(str[i])]

Greater(x, y) == x[1] * y[2] > y[1] * x[2]

Min(x, y) == IF x < y THEN x ELSE y

\* Mutant: every substitution costs 1, equal characters included.
substitutionCost_Always(aj, bi) == 1
substitutionCost(aj, bi) == IF aj = bi THEN 0 ELSE 1

\* One row of the matrix, matrix[i][0..j-1] being `row`.
RECURSIVE FillRow(_, _, _, _, _)
FillRow(a, bi, above, row, j) ==
    IF j > Len(a)
    THEN row
    ELSE LET cost == substitutionCost(a[j], bi)
             cell == Min(Min(above[j + 1] + 1, row[j] + 1), above[j] + cost)
         IN  FillRow(a, bi, above, Append(row, cell), j + 1)

\* The rows 1..b.length, `above` being row i - 1.
RECURSIVE FillMatrix(_, _, _, _)
FillMatrix(a, b, above, i) ==
    IF i > Len(b)
    THEN above[Len(a) + 1]
    ELSE FillMatrix(a, b, FillRow(a, b[i], above, <<i>>, 1), i + 1)

levenshteinDistance(a, b) ==
    FillMatrix(a, b, [j \in 1..(Len(a) + 1) |-> j - 1], 1)

\* Mutant: the length of the first string instead of the longer one.
maxLength_OfFirst(a, b) == Len(a)
maxLength(a, b) == IF Len(a) > Len(b) THEN Len(a) ELSE Len(b)

calculateSimilarity(a, b) ==
    IF a = b THEN <<1, 1>>
    ELSE IF a = <<>> \/ b = <<>> THEN <<0, 1>>
    ELSE <<maxLength(a, b) - levenshteinDistance(a, b), maxLength(a, b)>>

\* text.split(/\s+/): the pieces between the runs of white space.
RECURSIVE SplitFrom(_, _, _, _)
SplitFrom(str, i, piece, pieces) ==
    IF i > Len(str) THEN Append(pieces, piece)
    ELSE IF str[i] # " " THEN SplitFrom(str, i + 1, Append(piece, str[i]), pieces)
    ELSE IF i > 1 /\ str[i - 1] = " " THEN SplitFrom(str, i + 1, piece, pieces)
    ELSE SplitFrom(str, i + 1, <<>>, Append(pieces, piece))

split(str) == SplitFrom(str, 1, <<>>, <<>>)

\* cache.nameMap as the list of its entries in insertion order; set() of a key
\* that is present replaces the value in place.
RECURSIVE nameMap_set(_, _, _)
nameMap_set(entries, key, value) ==
    IF entries = <<>> THEN <<[key |-> key, value |-> value]>>
    ELSE IF Head(entries).key = key
         THEN <<[key |-> key, value |-> value]>> \o Tail(entries)
         ELSE <<Head(entries)>> \o nameMap_set(Tail(entries), key, value)

\* The forEach of initialize over the names the API lists.
RECURSIVE CacheNames(_, _)
CacheNames(entries, names) ==
    IF names = <<>> THEN entries
    ELSE CacheNames(nameMap_set(entries, toLowerCase(Head(names)), Head(names)),
                    Tail(names))

\* Mutant: the lookup compares with the names as the API spells them.
nameMap_has_CaseSensitive(entries, key) ==
    \E i \in 1..Len(entries) : entries[i].value = key
nameMap_has(entries, key) == \E i \in 1..Len(entries) : entries[i].key = key

nameMap_get(entries, key) ==
    entries[CHOOSE i \in 1..Len(entries) : entries[i].key = key].value

\* Mutant: the tokens of the text come before the words.
allTerms_TextFirst(text, words) ==
    SelectSeq(split(toLowerCase(text))
                  \o [i \in 1..Len(words) |-> toLowerCase(words[i])],
              LAMBDA term : Len(term) > 2)
allTerms(text, words) ==
    SelectSeq([i \in 1..Len(words) |-> toLowerCase(words[i])]
                  \o split(toLowerCase(text)),
              LAMBDA term : Len(term) > 2)

\* bestMatch = null, and the null that identifyPokemon returns.
NoBestMatch == [found |-> FALSE, name |-> <<>>, confidence |-> <<0, 1>>]

\* The first loop of identifyPokemon, from term i on.
RECURSIVE ExactPass(_, _, _)
ExactPass(terms, entries, i) ==
    IF i > Len(terms) THEN NoBestMatch
    ELSE IF nameMap_has(entries, terms[i])
         THEN [found |-> TRUE, name |-> nameMap_get(entries, terms[i]),
               confidence |-> <<1, 1>>]
         ELSE ExactPass(terms, entries, i + 1)

\* Mutant: a pair as good as the best one replaces it.
Replaces_OnTies(similarity, confidenceThreshold, bestMatch) ==
    /\ Greater(similarity, confidenceThreshold)
    /\ (~bestMatch.found \/ ~Greater(bestMatch.confidence, similarity))
\* The condition under which the second loop replaces bestMatch.
Replaces(similarity, confidenceThreshold, bestMatch) ==
    /\ Greater(similarity, confidenceThreshold)
    /\ (~bestMatch.found \/ Greater(similarity, bestMatch.confidence))

\* The nested loops of identifyPokemon, from term i and entry k on.
RECURSIVE FuzzyPass(_, _, _, _, _, _)
FuzzyPass(terms, entries, confidenceThreshold, i, k, bestMatch) ==
    IF i > Len(terms) THEN bestMatch
    ELSE IF k > Len(entries)
         THEN FuzzyPass(terms, entries, confidenceThreshold, i + 1, 1, bestMatch)
         ELSE LET similarity == calculateSimilarity(terms[i], entries[k].key)
              IN  FuzzyPass(terms, entries, confidenceThreshold, i, k + 1,
                      IF Replaces(similarity, confidenceThreshold, bestMatch)
                      THEN [found |-> TRUE, name |-> entries[k].value,
                            confidence |-> similarity]
                      ELSE bestMatch)

\* Mutant: a failed fetch is taken for an answer.
getPokemonDetails_IgnoresFailure(detailsMap, name, fetchOk) ==
    [detailsMap |-> detailsMap \cup {toLowerCase(name)},
     fetched |-> toLowerCase(name) \notin detailsMap, threw |-> FALSE]
\* getPokemonDetails(name) but for its rate limit: cache.detailsMap as the set
\* of its keys, fetchOk saying whether the fetch and the parse of its answer
\* succeed.
getPokemonDetails(detailsMap, name, fetchOk) ==
    IF toLowerCase(name) \in detailsMap
    THEN [detailsMap |-> detailsMap, fetched |-> FALSE, threw |-> FALSE]
    ELSE IF fetchOk
         THEN [detailsMap |-> detailsMap \cup {toLowerCase(name)},
               fetched |-> TRUE, threw |-> FALSE]
         ELSE [detailsMap |-> detailsMap, fetched |-> TRUE, threw |-> TRUE]

\* identifyPokemon, called with no details cached.  `cache` says whether
\* cache.nameMap holds the names the API lists ("loaded"), or is empty and the
\* fetch of initialize succeeds ("fetches") or fails ("fetchFails"); detailsOk
\* says whether the fetch of getPokemonDetails succeeds.  A throw ends in the
\* catch block, which returns null.
identifyPokemon(text, words, confidenceThreshold, apiNames, cache, detailsOk) ==
    IF cache = "fetchFails"
    THEN [nameMap |-> <<>>, bestMatch |-> NoBestMatch, fuzzyPass |-> FALSE,
          returned |-> NoBestMatch, detailsMap |-> {}, threw |-> FALSE]
    ELSE LET entries == CacheNames(<<>>, apiNames)
             terms == allTerms(text, words)
             exact == ExactPass(terms, entries, 1)
             bestMatch == IF exact.found THEN exact
                          ELSE FuzzyPass(terms, entries, confidenceThreshold,
                                         1, 1, NoBestMatch)
             details == IF bestMatch.found
                        THEN getPokemonDetails({}, bestMatch.name, detailsOk)
                        ELSE [detailsMap |-> {}, fetched |-> FALSE,
                              threw |-> FALSE]
         IN  [nameMap |-> entries, bestMatch |-> bestMatch,
              fuzzyPass |-> ~exact.found,
              returned |-> IF bestMatch.found /\ ~details.threw THEN bestMatch
                           ELSE NoBestMatch,
              detailsMap |-> details.detailsMap, threw |-> FALSE]

\* The strings, thresholds and catalogs the calls are checked on.
\* The longest string calculateSimilarity is called on.
MaxLen == 3
\* The most entries of `words`.
MaxWords == 1
\* The most names the API lists.
MaxNames == 2

Strings == UNION {[1..n -> {"a", "b"}] : n \in 0..MaxLen}

NamePool ==
    {<<"a", "b", "a">>, <<"A", "b", "b">>, <<"b", "b", "b">>,
     <<"a", "b", "a", "b">>, <<"b", "a", "b", "a">>, <<"a", "b">>}
WordPool ==
    {<<"a", "b", "a">>, <<"A", "b", "b">>, <<"a", "b", "b">>, <<"b", "a", "b">>,
     <<"a", "b">>}
TextPool ==
    {<<>>, <<"b", "b", "a">>, <<"a", "b", " ", "a", "b", "a">>,
     <<" ", "A", "b", "b", " ", " ", "b", "a", "b">>}
Thresholds == {<<1, 2>>, <<7, 10>>, <<3, 4>>}
WordLists == UNION {[1..n -> WordPool] : n \in 0..MaxWords}
\* The names the API lists: distinct names in some order.
Catalogs ==
    UNION {{names \in [1..n -> NamePool] :
               \A i, j \in 1..n : names[i] = names[j] => i = j} : n \in 0..MaxNames}

SimilarityCalls ==
    [op : {"calculateSimilarity"}, pc : {"called"}, a : Strings, b : Strings]

IdentifyCalls ==
    [op : {"identifyPokemon"}, pc : {"called"}, text : TextPool, words : WordLists,
     confidenceThreshold : Thresholds, apiNames : Catalogs,
     cache : {"loaded", "fetches", "fetchFails"}, detailsOk : BOOLEAN]

\* Everything of the hook, left alone by the calls of pokemonIdentifier.
hookVars ==
    <<processState, result, animationFrameRef, lastDetectionTime, lastOcrTime,
      lastIdentificationTime, autoStart, initPc, frames, inflight,
      cardDetector_lastDetectionTime, ocrProcessor_lastOcrTime, clock, obs,
      watch>>

\* calculateSimilarity(a, b) and calculateSimilarity(b, a) return.
CalculateSimilarity ==
    /\ call.op = "calculateSimilarity"
    /\ call.pc = "called"
    /\ call' = [op |-> call.op, pc |-> "returned", a |-> call.a, b |-> call.b,
                ab |-> calculateSimilarity(call.a, call.b),
                ba |-> calculateSimilarity(call.b, call.a),
                distanceAB |-> levenshteinDistance(call.a, call.b),
                distanceBA |-> levenshteinDistance(call.b, call.a)]
    /\ UNCHANGED hookVars

\* identifyPokemon(text, words, confidenceThreshold) returns.
IdentifyPokemon ==
    /\ call.op = "identifyPokemon"
    /\ call.pc = "called"
    /\ LET r == identifyPokemon(call.text, call.words, call.confidenceThreshold,
                                call.apiNames, call.cache, call.detailsOk)
       IN  call' = [op |-> call.op, pc |-> "returned", text |-> call.text,
                    words |-> call.words,
                    confidenceThreshold |-> call.confidenceThreshold,
                    apiNames |-> call.apiNames, cache |-> call.cache,
                    detailsOk |-> call.detailsOk, nameMap |-> r.nameMap,
                    bestMatch |-> r.bestMatch, fuzzyPass |-> r.fuzzyPass,
                    returned |-> r.returned, detailsMap |-> r.detailsMap,
                    threw |-> r.threw]
    /\ UNCHANGED hookVars

InitSimilarity == Mount("similarity") /\ autoStart /\ call \in SimilarityCalls
InitIdentify == Mount("identify") /\ autoStart /\ call \in IdentifyCalls

SpecSimilarity == InitSimilarity /\ [][CalculateSimilarity]_vars
SpecIdentify == InitIdentify /\ [][IdentifyPokemon]_vars

(* --------------------- pokemonIdentifier.initialize -------------------- *)
cacheExpiryMs == 86400000
MaxRuns == 2

\* Mutant: the forEach stops after the first of the fetched names.
RefreshNames_StopsEarly(entries, names) ==
    IF names = <<>> THEN <<>> ELSE CacheNames(<<>>, <<Head(names)>>)
\* Mutant: the fetched names are pushed behind the entries already cached.
RefreshNames_Accumulates(entries, names) ==
    entries \o [i \in 1..Len(names) |->
                   [key |-> toLowerCase(names[i]), value |-> names[i]]]
\* nameMap.clear() followed by the forEach over the fetched list.
RefreshNames(entries, names) == CacheNames(<<>>, names)

\* Mutant: the name map is cleared before the list is fetched.
initialize_ClearsFirst(cache, forceRefresh, now, fetchOk, names) ==
    IF /\ ~forceRefresh
       /\ Len(cache.nameMap) > 0
       /\ now - cache.lastUpdated < cacheExpiryMs
    THEN [cache |-> cache, status |-> "ready", threw |-> FALSE]
    ELSE IF ~fetchOk
         THEN [cache |-> [cache EXCEPT !.nameMap = <<>>],
               status |-> "error", threw |-> TRUE]
         ELSE [cache |-> [cache EXCEPT
                              !.nameMap = RefreshNames(cache.nameMap, names),
                              !.lastUpdated = now],
               status |-> "ready", threw |-> FALSE]
\* initialize(forceRefresh) at time `now`, the fetch (with the parse of its
\* answer) either failing or giving `names`.
initialize(cache, forceRefresh, now, fetchOk, names) ==
    IF /\ ~forceRefresh
       /\ Len(cache.nameMap) > 0
       /\ now - cache.lastUpdated < cacheExpiryMs
    THEN [cache |-> cache, status |-> "ready", threw |-> FALSE]
    ELSE IF ~fetchOk
         THEN [cache |-> cache, status |-> "error", threw |-> TRUE]
         ELSE [cache |-> [cache EXCEPT
                              !.nameMap = RefreshNames(cache.nameMap, names),
                              !.lastUpdated = now],
               status |-> "ready", threw |-> FALSE]

\* What the API lists: names in some order, the same name possibly twice or
\* in two spellings.
ApiLists ==
    UNION {[1..n -> NamePool \cup {<<"a", "b", "b">>}] : n \in 0..MaxNames}
\* The cache before the calls: never filled, or filled at Epoch, the details
\* of the cached name fetched or not.
Caches ==
    {[nameMap |-> <<>>, detailsMap |-> {}, lastUpdated |-> 0]}
        \cup UNION {{[nameMap |-> CacheNames(<<>>, <<n>>), detailsMap |-> d,
                      lastUpdated |-> Epoch] : d \in {{}, {toLowerCase(n)}}} :
                        n \in NamePool}
InitializeCalls ==
    [op : {"initialize"}, runs : {0}, cache : Caches, names : ApiLists,
     forceRefresh : [1..MaxRuns -> BOOLEAN], fetchOk : [1..MaxRuns -> BOOLEAN],
     elapsed : {0, cacheExpiryMs}, after : {<<>>}, threw : {<<>>},
     status : {<<>>}]

\* The cache as the calls made so far have left it.
CurrentCache == IF call.runs = 0 THEN call.cache ELSE call.after[call.runs]

\* One call of pokemonIdentifier.initialize, the upstream list being the same
\* at every call.
Initialize ==
    /\ call.op = "initialize"
    /\ call.runs < MaxRuns
    /\ LET n == call.runs + 1
           r == initialize(CurrentCache, call.forceRefresh[n],
                           Epoch + call.runs * call.elapsed,
                           call.fetchOk[n], call.names)
       IN  call' = [call EXCEPT !.runs = n,
                                !.after = Append(@, r.cache),
                                !.threw = Append(@, r.threw),
                                !.status = Append(@, r.status)]
    /\ UNCHANGED hookVars

InitInitialize == Mount("initialize") /\ autoStart /\ call \in InitializeCalls
SpecInitialize == InitInitialize /\ [][Initialize]_vars

(* ----------------- pokemonIdentifier.getPokemonDetails ---------------- *)
\* The calls of getPokemonDetails that the callers of the singleton have in
\* progress.  Between two awaits a call runs without interruption; the calls
\* interleave at the awaits of the timer (673) and of the fetch (681-686).
\* `call` holds the fields of pokemonIdentifier (detailsMap as the set of its
\* keys, lastApiCallTime), Date.now() (now), and for each caller where its call
\* stands:
\* "idle", "waiting" for the timer due at wakeAt, or "fetching" name.
\* History: fetchedSince, the keys fetched with success since the last
\* clearCache; fetchedTwice, one of them has been fetched with success again;
\* gapOk, no fetch so far was issued less than rateLimitMs after the one
\* before it; served, the last call was answered from the cache.
rateLimitMs == 1000
MaxCallers == 2

Callers == 1..MaxCallers
DetailNames == {<<"a", "b", "a">>, <<"A", "b", "a">>, <<"b", "b", "b">>}
DetailInstants == {0, 400, 1000, 1400, 2000}
Idle == [pc |-> "idle", name |-> <<>>, wakeAt |-> 0]

Max(x, y) == IF x > y THEN x ELSE y

\* Line 671.
timeToWait(now, lastApiCallTime) == Max(0, rateLimitMs - (now - lastApiCallTime))

\* Lines 677-681: the stamp and the request.
IssueFetch(s, c, name) ==
    [s EXCEPT !.lastApiCallTime = s.now,
              !.callers[c] = [pc |-> "fetching", name |-> name, wakeAt |-> 0],
              !.gapOk = @ /\ ( \/ s.lastApiCallTime = 0
                               \/ s.now - s.lastApiCallTime >= rateLimitMs ),
              !.served = FALSE]

\* A caller calls getPokemonDetails(name): lines 664-681, up to the first
\* await.
GetPokemonDetails ==
    /\ call.op = "getPokemonDetails"
    /\ \E c \in Callers : \E name \in DetailNames :
         /\ call.callers[c].pc = "idle"
         /\ call' =
              IF toLowerCase(name) \in call.detailsMap
              THEN [call EXCEPT !.served = TRUE]
              ELSE IF timeToWait(call.now, call.lastApiCallTime) > 0
                   THEN [call EXCEPT
                            !.callers[c] =
                                [pc |-> "waiting", name |-> toLowerCase(name),
                                 wakeAt |-> call.now + timeToWait(call.now,
                                                call.lastApiCallTime)],
                            !.served = FALSE]
                   ELSE IssueFetch(call, c, toLowerCase(name))
    /\ UNCHANGED hookVars

\* The timer of line 673 fires, not before it is due.
TimerFires ==
    /\ call.op = "getPokemonDetails"
    /\ \E c \in Callers :
         /\ call.callers[c].pc = "waiting"
         /\ call.now >= call.callers[c].wakeAt
         /\ call' = IssueFetch(call, c, call.callers[c].name)
    /\ UNCHANGED hookVars

\* The fetch resolves: lines 681-696.
FetchResolves ==
    /\ call.op = "getPokemonDetails"
    /\ \E c \in Callers : \E ok \in BOOLEAN :
         /\ call.callers[c].pc = "fetching"
         /\ call' =
              IF ok
              THEN [call EXCEPT
                       !.detailsMap = @ \cup {call.callers[c].name},
                       !.fetchedSince = @ \cup {call.callers[c].name},
                       !.fetchedTwice =
                           @ \/ call.callers[c].name \in call.fetchedSince,
                       !.callers[c] = Idle]
              ELSE [call EXCEPT !.callers[c] = Idle]
    /\ UNCHANGED hookVars

\* clearCache().
ClearCache ==
    /\ call.op = "getPokemonDetails"
    /\ call.detailsMap # {}
    /\ call' = [call EXCEPT !.detailsMap = {}, !.fetchedSince = {},
                            !.served = FALSE]
    /\ UNCHANGED hookVars

\* Time passes.
DetailsTimePasses ==
    /\ call.op = "getPokemonDetails"
    /\ \E i \in DetailInstants :
         /\ Epoch + i > call.now
         /\ call' = [call EXCEPT !.now = Epoch + i]
    /\ UNCHANGED hookVars

NextDetails ==
    \/ GetPokemonDetails
    \/ TimerFires
    \/ FetchResolves
    \/ ClearCache
    \/ DetailsTimePasses

InitDetails ==
    /\ Mount("details") /\ autoStart
    /\ call = [op |-> "getPokemonDetails", detailsMap |-> {},
               lastApiCallTime |-> 0, now |-> Epoch,
               callers |-> [c \in Callers |-> Idle],
               fetchedSince |-> {}, fetchedTwice |-> FALSE, gapOk |-> TRUE,
               served |-> FALSE]
SpecDetails == InitDetails /\ [][NextDetails]_vars

(* ------------- initialize while identifyPokemon is running ------------ *)
\* Calls of initialize by other callers of the singleton (refreshes) next to
\* one call of identifyPokemon at a time.  A call of initialize runs without
\* interruption up to its fetch (561-574) and again from the answer to its end
\* (575-598): nameMap.clear() and the forEach have no await between them.
\* identifyPokemon reads cache.nameMap at 717 and in its loops (730-751), which
\* follow 717 at once unless it awaits its own initialize().
\* `call` holds cache, Date.now() (now), where each refresh stands (pc, and the
\* `now` of line 561), where identifyPokemon stands, its last reading of the
\* map (read.map, at read.point) and, as history: latest, the map holding all
\* and only the names of the last list fetched with success (the map before
\* the calls when there is none); refreshed, whether there is one; during,
\* whether another caller's refresh has filled the map while this call of
\* identifyPokemon was in progress; read.complete and read.refreshed, latest
\* and refreshed at the reading.
RefreshLists ==
    {<<<<"a", "b", "a">>, <<"A", "b", "b">>>>,
     <<<<"b", "b", "b">>, <<"a", "b", "a">>>>,
     <<<<"A", "b", "b">>, <<"a", "b", "b">>>>}
RefreshCaches == {cache \in Caches : cache.detailsMap = {}}
NotCalled == [pc |-> "idle", now |-> 0]

\* Lines 561-570: initialize returns without fetching.
ReturnsAtOnce(cache, forceRefresh, now) ==
    initialize(cache, forceRefresh, now, FALSE, <<>>).status = "ready"

\* Lines 575-598, once the fetch of a call that began at `now` has resolved.
AfterFetch(s, now, fetchOk, names) ==
    [s EXCEPT !.cache = initialize(s.cache, TRUE, now, fetchOk, names).cache,
              !.latest = IF fetchOk THEN CacheNames(<<>>, names) ELSE @,
              !.refreshed = @ \/ fetchOk]

\* A caller calls initialize(forceRefresh) and the list is requested.
InitializeCalled ==
    /\ call.op = "refresh"
    /\ \E c \in Callers : \E forceRefresh \in BOOLEAN :
         /\ call.refreshes[c].pc = "idle"
         /\ ~ReturnsAtOnce(call.cache, forceRefresh, call.now)
         /\ call' = [call EXCEPT
                        !.refreshes[c] = [pc |-> "fetching", now |-> call.now]]
    /\ UNCHANGED hookVars

\* The fetch of a refresh resolves.
InitializeResolves ==
    /\ call.op = "refresh"
    /\ \E c \in Callers : \E fetchOk \in BOOLEAN : \E names \in RefreshLists :
         /\ call.refreshes[c].pc = "fetching"
         /\ call' = [AfterFetch(call, call.refreshes[c].now, fetchOk, names)
                        EXCEPT !.refreshes[c] = NotCalled,
                               !.during = @ \/ ( /\ fetchOk
                                                 /\ call.identify.pc # "idle" )]
    /\ UNCHANGED hookVars

\* identifyPokemon is called: line 717, and with names cached the loops too.
IdentifyPokemonCalled ==
    /\ call.op = "refresh"
    /\ call.identify.pc = "idle"
    /\ call' =
         IF Len(call.cache.nameMap) = 0
         THEN [call EXCEPT
                  !.identify = [pc |-> "initializing", now |-> call.now],
                  !.read = [point |-> "size", map |-> call.cache.nameMap,
                            complete |-> call.latest,
                            refreshed |-> call.refreshed],
                  !.during = FALSE]
         ELSE [call EXCEPT
                  !.read = [point |-> "loops", map |-> call.cache.nameMap,
                            complete |-> call.latest,
                            refreshed |-> call.refreshed],
                  !.during = FALSE]
    /\ UNCHANGED hookVars

\* The fetch of the initialize() that identifyPokemon awaits resolves; a
\* failure is thrown into the catch block of identifyPokemon, which returns.
IdentifyInitializeResolves ==
    /\ call.op = "refresh"
    /\ call.identify.pc = "initializing"
    /\ \E fetchOk \in BOOLEAN : \E names \in RefreshLists :
         call' = [AfterFetch(call, call.identify.now, fetchOk, names)
                     EXCEPT !.identify =
                                IF fetchOk THEN [pc |-> "resumed", now |-> 0]
                                ELSE NotCalled]
    /\ UNCHANGED hookVars

\* identifyPokemon goes on after its await: lines 721-751.
IdentifyPokemonResumes ==
    /\ call.op = "refresh"
    /\ call.identify.pc = "resumed"
    /\ call' = [call EXCEPT
                   !.identify = NotCalled,
                   !.read = [point |-> "loops", map |-> call.cache.nameMap,
                             complete |-> call.latest,
                            refreshed |-> call.refreshed]]
    /\ UNCHANGED hookVars

\* Time passes, by as long as the cached names stay valid.
RefreshTimePasses ==
    /\ call.op = "refresh"
    /\ call.now < Epoch + MaxRuns * cacheExpiryMs
    /\ call' = [call EXCEPT !.now = @ + cacheExpiryMs]
    /\ UNCHANGED hookVars

NextRefresh ==
    \/ InitializeCalled
    \/ InitializeResolves
    \/ IdentifyPokemonCalled
    \/ IdentifyInitializeResolves
    \/ IdentifyPokemonResumes
    \/ RefreshTimePasses

InitRefresh ==
    /\ Mount("refresh") /\ autoStart
    /\ \E cache \in RefreshCaches :
         call = [op |-> "refresh", cache |-> cache, now |-> Epoch,
                 refreshes |-> [c \in Callers |-> NotCalled],
                 identify |-> NotCalled,
                 read |-> [point |-> "none", map |-> <<>>, complete |-> <<>>,
                          refreshed |-> FALSE],
                 latest |-> cache.nameMap, refreshed |-> FALSE,
                 during |-> FALSE]
SpecRefresh == InitRefresh /\ [][NextRefresh]_vars

(* ------------------- scanFrame: the region for OCR -------------------- *)
MaxBoxes == 3

\* Mutant: a detection as large as the largest so far replaces it.
LargerArea_OrEqual(current, largest) ==
    current.width * current.height >= largest.width * largest.height
\* currentArea > largestArea.
LargerArea(current, largest) ==
    current.width * current.height > largest.width * largest.height

\* detections.reduce(callback, detections[0]) from element i on.
RECURSIVE Reduce(_, _, _)
Reduce(detections, i, largest) ==
    IF i > Len(detections) THEN largest
    ELSE Reduce(detections, i + 1,
                IF LargerArea(detections[i], largest) THEN detections[i]
                ELSE largest)
largestDetection(detections) == Reduce(detections, 1, detections[1])

\* The detections of a tick with a card: boxes at different places (x), of
\* widths and heights that give equal and unequal areas.
BoxSizes == {<<2, 3>>, <<3, 2>>, <<1, 5>>, <<3, 3>>}
CardLists ==
    UNION {{[i \in 1..n |-> [x |-> i, width |-> sizes[i][1],
                             height |-> sizes[i][2]]] :
               sizes \in [1..n -> BoxSizes]} : n \in 1..MaxBoxes}
RegionCalls == [op : {"largestDetection"}, pc : {"called"}, detections : CardLists]

\* Lines 215-222 of a tick that passed the extraction throttle.
LargestDetection ==
    /\ call.op = "largestDetection"
    /\ call.pc = "called"
    /\ call' = [op |-> call.op, pc |-> "returned", detections |-> call.detections,
                largestDetection |-> largestDetection(call.detections)]
    /\ UNCHANGED hookVars

InitRegion == Mount("region") /\ autoStart /\ call \in RegionCalls
SpecRegion == InitRegion /\ [][LargestDetection]_vars

(* ----------------------------- properties ----------------------------- *)
\* Which of the three parts of a snapshot are present.
Shape(r) ==
    <<r.detections # <<>>, r.ocrResult # Null, r.pokemonMatch # Null>>

\* C1: a snapshot with an empty detection list holds neither an extraction
\* result nor a match, whatever the snapshot before it and the result the tick
\* closes over held.
C1_NoStaleTextOnCardLoss ==
    result.detections = <<>> =>
        result.ocrResult = Null /\ result.pokemonMatch = Null

\* A tick published an empty detection list over a snapshot that held a text
\* or a match, and the result it closes over held one too.
C1_Witness ==
    /\ obs.byTick
    /\ obs.prevHadText
    /\ obs.closureHadText
    /\ result.detections = <<>>
    /\ result.ocrResult = Null
    /\ result.pokemonMatch = Null

\* C2: in every published snapshot the status is "no-card" exactly when the
\* detection list is empty.
C2_NoCardIffNoDetections ==
    (result.status = "no-card") <=> (result.detections = <<>>)

\* A tick published a non-empty detection list on which neither the recognizer
\* nor the matcher ran.
C2_Witness ==
    /\ obs.byTick
    /\ ~obs.ocrRan
    /\ result.detections # <<>>
    /\ result.status = "card-detected"

\* C3: in every published snapshot a present match implies status
\* "identified".
C3_MatchImpliesIdentified ==
    result.pokemonMatch # Null => result.status = "identified"

\* C4: two published snapshots that agree on which of detections, extraction
\* and match are present carry the same status (obs.remembered is any earlier
\* snapshot).
C4_StatusIsFunctionOfTriple ==
    Shape(obs.remembered) = Shape(result) =>
        obs.remembered.status = result.status

\* C5: a tick on which the detector does not run publishes the detections the
\* last run of the detector produced.
C5_SkippedDetectionReemits == obs.detectionsCarried

\* C6: a tick with a card on which the recognizer (the matcher) does not run
\* publishes the extraction result (the match) the last run produced.
C6_SkippedExtractionReemits == obs.ocrCarried /\ obs.matchCarried

C8_StoppedStaysReady ==
    obs.controllerStopped =>
        processState = "ready" /\ ~obs.tickAfterStop

\* C9: a tick that was suspended in a capability call when stopScanning() was
\* called publishes no snapshot.
C9_StoppedTickDiscarded == ~obs.stoppedInFlight

\* C10: at most one tick of scanFrame is scheduled or in flight.
C10_AtMostOneTick == Cardinality(frames) + Cardinality(inflight) <= 1

\* C11: once initializeServices has failed, the lifecycle state is never
\* "scanning".
C11_ErrorNeverScans == initPc = "failed" => processState # "scanning"

\* C12: the lifecycle state is "ready" or "scanning" only after the three
\* initializations have succeeded.
C12_ReadyOnlyAfterInit ==
    processState \in {"ready", "scanning"} => initPc = "done"

\* C13: startScanning() called in a lifecycle state other than "ready" leaves
\* the lifecycle state, the pending handle, the throttle stamps, the snapshot
\* and the scheduled and suspended ticks as they were.
C13_StartOutsideReadyIsNoOp ==
    [][processState # "ready" /\ ControllerStart =>
          UNCHANGED <<processState, result, animationFrameRef, lastDetectionTime,
                      lastOcrTime, lastIdentificationTime, frames, inflight,
                      cardDetector_lastDetectionTime,
                      ocrProcessor_lastOcrTime>>]_vars

\* startScanning() has been called outside "ready", and the state is not
\* "ready" now.
C13_Witness == obs.startIgnored /\ processState # "ready"

\* C14: in every state with lifecycle state "ready", the initializations
\* having succeeded, a call of startScanning() sets the lifecycle state to
\* "scanning".
C14_StartFromReadyScans ==
    processState = "ready" /\ initPc = "done" =>
        StartScanning(Heap).processState = "scanning"

\* C15: a step of a tick of scanFrame either leaves the tick suspended in an
\* await or ends it with exactly one callback scheduled in its place, so the
\* number of scheduled plus suspended ticks is unchanged; this includes the
\* ticks whose capability call failed.
C15_TickSchedulesOneNext ==
    [][(TickBegin \/ DetectCardsResolves \/ ExtractTextResolves
            \/ IdentifyPokemonResolves) =>
          Cardinality(frames') + Cardinality(inflight')
              = Cardinality(frames) + Cardinality(inflight)]_vars

\* A tick whose detector call failed has just ended, and the one loop there is
\* has its next tick scheduled.
C15_Witness ==
    /\ obs.detectorFailed
    /\ processState = "scanning"
    /\ Cardinality(frames) = 1
    /\ inflight = {}

C17_FailedExtractionKeepsCache == obs.extractionKept

\* The candidate terms of the call, the positions of those that are keys of the
\* name map, and the entry a key belongs to.
CandidateTerms == allTerms(call.text, call.words)
ExactTerms ==
    {i \in 1..Len(CandidateTerms) :
        \E k \in 1..Len(call.nameMap) : call.nameMap[k].key = CandidateTerms[i]}
FirstExactName ==
    LET i == CHOOSE i \in ExactTerms : \A j \in ExactTerms : i <= j
        k == CHOOSE k \in 1..Len(call.nameMap) :
                 call.nameMap[k].key = CandidateTerms[i]
    IN  call.nameMap[k].value

\* C18 as stated: when a candidate term is a key of the name map,
\* identifyPokemon returns a match with confidence 1 and makes no fuzzy pass.
C18_ExactMatchReturned ==
    call.op = "identifyPokemon" /\ call.pc = "returned" /\ ExactTerms # {} =>
        /\ call.returned.found
        /\ call.returned.confidence = <<1, 1>>
        /\ ~call.fuzzyPass

\* C18 as amended: when a candidate term is a key of the name map,
\* identifyPokemon selects the name of the first such term with confidence 1
\* and makes no fuzzy pass; it returns that match when getPokemonDetails
\* returns, and null when getPokemonDetails throws.
C18_ExactMatchSelected ==
    call.op = "identifyPokemon" /\ call.pc = "returned" /\ ExactTerms # {} =>
        /\ call.bestMatch =
               [found |-> TRUE, name |-> FirstExactName, confidence |-> <<1, 1>>]
        /\ ~call.fuzzyPass
        /\ call.returned = IF call.detailsOk THEN call.bestMatch ELSE NoBestMatch

\* A call returned a match of confidence 1 for its second term, although its
\* first term has a fuzzy candidate above the threshold for another name.
C18_Witness ==
    /\ call.op = "identifyPokemon" /\ call.pc = "returned"
    /\ ExactTerms # {} /\ 1 \notin ExactTerms
    /\ \E k \in 1..Len(call.nameMap) :
           /\ Greater(calculateSimilarity(CandidateTerms[1], call.nameMap[k].key),
                      call.confidenceThreshold)
           /\ call.nameMap[k].value # call.returned.name
    /\ call.returned.found
    /\ call.returned.confidence = <<1, 1>>

\* The pairs (term, entry) of the call, the similarity of a pair, and the pairs
\* whose similarity exceeds the threshold.
Pairs == (1..Len(CandidateTerms)) \X (1..Len(call.nameMap))
PairSimilarity(p) ==
    calculateSimilarity(CandidateTerms[p[1]], call.nameMap[p[2]].key)
Qualifying ==
    {p \in Pairs : Greater(PairSimilarity(p), call.confidenceThreshold)}
Before(p, q) == p[1] < q[1] \/ (p[1] = q[1] /\ p[2] <= q[2])

\* C19: when no candidate term is a key of the name map, identifyPokemon
\* selects nothing (and returns null) if no pair has a similarity above the
\* threshold, and otherwise selects the name and similarity of the pair that
\* no qualifying pair exceeds and that comes first among those as good.
C19_BestFuzzyPairSelected ==
    /\ call.op = "identifyPokemon" /\ call.pc = "returned"
    /\ call.cache # "fetchFails" /\ ExactTerms = {}
    => IF Qualifying = {}
       THEN ~call.bestMatch.found /\ ~call.returned.found
       ELSE \E w \in Qualifying :
              /\ \A p \in Qualifying :
                     /\ ~Greater(PairSimilarity(p), PairSimilarity(w))
                     /\ ~Greater(PairSimilarity(w), PairSimilarity(p))
                            => Before(w, p)
              /\ call.bestMatch =
                     [found |-> TRUE, name |-> call.nameMap[w[2]].value,
                      confidence |-> PairSimilarity(w)]

\* A call selected the first of two pairs of equal, maximal similarity that
\* belong to different names.
C19_Witness ==
    /\ call.op = "identifyPokemon" /\ call.pc = "returned"
    /\ ExactTerms = {}
    /\ \E p, q \in Qualifying :
           /\ p # q /\ Before(p, q)
           /\ PairSimilarity(p) = PairSimilarity(q)
           /\ \A r \in Qualifying : ~Greater(PairSimilarity(r), PairSimilarity(p))
           /\ call.nameMap[p[2]].value # call.nameMap[q[2]].value
           /\ call.bestMatch.name = call.nameMap[p[2]].value

\* C20: calculateSimilarity(a, b) = calculateSimilarity(b, a), and
\* levenshteinDistance(a, b) = levenshteinDistance(b, a).
C20_SimilaritySymmetric ==
    call.op = "calculateSimilarity" /\ call.pc = "returned" =>
        call.ab = call.ba /\ call.distanceAB = call.distanceBA

\* Both calls returned the same fraction for two strings of different lengths
\* that have something in common.
C20_Witness ==
    /\ call.op = "calculateSimilarity" /\ call.pc = "returned"
    /\ Len(call.a) < Len(call.b) /\ call.a # <<>>
    /\ call.ab = call.ba
    /\ call.ab[1] > 0

\* The edit distance by its definition: the fewest deletions, insertions and
\* substitutions that turn a into b.
RECURSIVE EditDistance(_, _)
EditDistance(a, b) ==
    IF a = <<>> THEN Len(b)
    ELSE IF b = <<>> THEN Len(a)
    ELSE IF Head(a) = Head(b) THEN EditDistance(Tail(a), Tail(b))
    ELSE 1 + Min(Min(EditDistance(Tail(a), b), EditDistance(a, Tail(b))),
                 EditDistance(Tail(a), Tail(b)))

\* C21: levenshteinDistance(a, b) is the edit distance; calculateSimilarity(a, b)
\* is 1 - distance / max(len(a), len(b)) whenever one of the strings is not
\* empty, lies in [0, 1], is 1 exactly when a = b, and is 0 when exactly one of
\* the strings is empty.
C21_SimilarityIsNormalizedDistance ==
    call.op = "calculateSimilarity" /\ call.pc = "returned" =>
        LET longest == IF Len(call.a) > Len(call.b) THEN Len(call.a) ELSE Len(call.b)
            distance == EditDistance(call.a, call.b)
        IN  /\ call.distanceAB = distance
            /\ call.ab[2] > 0
            /\ longest > 0 =>
                   call.ab[1] * longest = (longest - distance) * call.ab[2]
            /\ 0 <= call.ab[1] /\ call.ab[1] <= call.ab[2]
            /\ (call.ab[1] = call.ab[2]) <=> (call.a = call.b)
            /\ (call.a = <<>>) # (call.b = <<>>) => call.ab[1] = 0

\* calculateSimilarity returned a fraction strictly between 0 and 1 for two
\* strings that share a character at a place where a substitution is free.
C21_Witness ==
    /\ call.op = "calculateSimilarity" /\ call.pc = "returned"
    /\ Len(call.a) = MaxLen /\ Len(call.b) = MaxLen
    /\ call.distanceAB = 1
    /\ 0 < call.ab[1] /\ call.ab[1] < call.ab[2]

\* The place of a capability call in the body of scanFrame.
StageRank(pc) ==
    CASE pc = "detectCards" -> 1
      [] pc = "extractText" -> 2
      [] pc = "identifyPokemon" -> 3

\* C22: within one tick the capability calls happen in the order detection,
\* extraction, identification, and the publication comes last; extractText is
\* called only with a non-empty detection set, identifyPokemon only with an
\* extraction result (and a non-empty detection set).
C22_StagesInOrder ==
    [][ /\ \A t2 \in inflight' \ inflight :
             /\ t2.pc = "extractText" => t2.detections # <<>>
             /\ t2.pc = "identifyPokemon" =>
                    t2.detections # <<>> /\ t2.ocrResult # Null
             /\ \/ \E f \in frames \ frames' :
                       f.closure = t2.closure /\ t2.now = clock
                \/ \E t1 \in inflight \ inflight' :
                       /\ t1.closure = t2.closure /\ t1.now = t2.now
                       /\ StageRank(t1.pc) < StageRank(t2.pc)
        /\ result' # result => inflight' \subseteq inflight ]_vars

\* A tick has come through detection and extraction and waits for the matcher.
C22_Witness ==
    \E tk \in inflight :
        /\ tk.pc = "identifyPokemon"
        /\ tk.detections # <<>> /\ tk.ocrResult # Null
        /\ lastDetectionTime = tk.now /\ lastOcrTime = tk.now

\* C23: two calls of initialize(true) against the same upstream list, the
\* first of which succeeds, leave the same name map: same keys in the same
\* order with the same canonical names.
C23_ForcedRefreshIdempotent ==
    /\ call.op = "initialize" /\ call.runs >= 2
    /\ call.forceRefresh[1] /\ call.forceRefresh[2]
    /\ ~call.threw[1]
    => call.after[2].nameMap = call.after[1].nameMap

\* Both forced calls fetched a list of two spellings of one name into a cache
\* that held another name.
C23_Witness ==
    /\ call.op = "initialize" /\ call.runs = 2
    /\ call.forceRefresh[1] /\ call.forceRefresh[2]
    /\ ~call.threw[1] /\ ~call.threw[2]
    /\ Len(call.names) = 2 /\ Len(call.after[2].nameMap) = 1
    /\ call.after[2].lastUpdated > call.after[1].lastUpdated
    /\ call.after[1].nameMap # <<>>

\* C24: in front of a card that every stage recognizes, if the scanner is
\* scanning from some moment on, a snapshot with status "identified" and a
\* match is published at some moment.
C24_EventuallyIdentified ==
    <>[](processState = "scanning")
        => <>(result.status = "identified" /\ result.pokemonMatch # Null)

\* The scanner is scanning and the published snapshot is an identification.
C24_Witness ==
    /\ processState = "scanning"
    /\ result.status = "identified" /\ result.pokemonMatch \in PokemonMatches
    /\ result.ocrResult \in OcrResults /\ result.detections # <<>>
    /\ watch = "live"

\* C25: a tick on which the matcher was invoked and found no name publishes a
\* snapshot with status "identification-failed", no match, the card and the
\* text.
C25_NoMatchPublishesFailed ==
    obs.byTick /\ obs.idRan /\ result.pokemonMatch = Null
        => /\ result.status = "identification-failed"
           /\ result.detections # <<>>
           /\ result.ocrResult # Null

\* A tick of a loop that began with an empty snapshot ran the three stages and
\* published the failure.
C25_Witness ==
    /\ obs.byTick /\ obs.detRan /\ obs.ocrRan /\ obs.idRan
    /\ ~obs.closureHadText
    /\ result.pokemonMatch = Null
    /\ result.status = "identification-failed"

\* C26: each of the three throttles of scanFrame lets a tick through exactly
\* when at least the interval lies between the stamp of the stage and the
\* Date.now() the tick read, a tick exactly the interval later included.
C26_StageRunsAtInterval ==
    /\ frames # {} =>
           (clock - lastDetectionTime >= detectionThrottleMs
               <=> DetectionThrottlePasses(clock, lastDetectionTime))
    /\ \A tk \in inflight :
           /\ tk.pc = "detectCards" =>
                  (tk.now - lastOcrTime >= ocrThrottleMs
                      <=> OcrThrottlePasses(tk.now, lastOcrTime))
           /\ tk.pc = "extractText" =>
                  (tk.now - lastIdentificationTime >= identificationThrottleMs
                      <=> IdentificationThrottlePasses(tk.now,
                                                       lastIdentificationTime))

\* C27: a stamp of scanFrame changes only in a step in which the capability of
\* its stage is invoked, that is, in which a tick comes to wait for the answer
\* of detectCards (extractText, identifyPokemon); not when the service refuses
\* the call because of its own throttle.
C27_StampOnlyOnInvocation ==
    [][ /\ lastDetectionTime' # lastDetectionTime =>
               \E tk \in inflight' \ inflight : tk.pc = "detectCards"
        /\ lastOcrTime' # lastOcrTime =>
               \E tk \in inflight' \ inflight : tk.pc = "extractText"
        /\ lastIdentificationTime' # lastIdentificationTime =>
               \E tk \in inflight' \ inflight : tk.pc = "identifyPokemon" ]_vars

\* C28: a published snapshot with a card and no extraction result has status
\* "card-detected".
C28_NoTextMeansCardDetected ==
    result.detections # <<>> /\ result.ocrResult = Null
        => result.status = "card-detected"

\* C29: status "identification-failed" is published only by a tick that held a
\* card and a text, invoked the matcher and got no match.
C29_FailedOnlyAfterMatcherRan ==
    result.status = "identification-failed"
        => /\ obs.byTick /\ obs.idRan
           /\ result.detections # <<>>
           /\ result.ocrResult # Null
           /\ result.pokemonMatch = Null

\* A tick that carried its detections and ran the recognizer and the matcher
\* replaced a snapshot with a text by the failure.
C29_Witness ==
    /\ result.status = "identification-failed"
    /\ obs.byTick /\ ~obs.detRan /\ obs.ocrRan /\ obs.idRan
    /\ obs.prevHadText
    /\ result.ocrResult \in OcrResults

\* C30: a tick that carries a card and an extraction result forward, more
\* than the identification interval after the matcher last ran and less than
\* the extraction interval after the recognizer last ran, invokes the matcher.
C30_MatcherRunsWhenDue ==
    \A f \in frames :
        /\ f.closure.processState = "ready"
        /\ ~DetectionThrottlePasses(clock, lastDetectionTime)
        /\ f.closure.result.detections # <<>>
        /\ f.closure.result.ocrResult # Null
        /\ clock - lastOcrTime < ocrThrottleMs
        /\ clock - lastIdentificationTime > identificationThrottleMs
        => \E tk \in ScanFrame(Heap, f, TRUE).inflight \ inflight :
               tk.pc = "identifyPokemon"

\* The tokens of a text: its maximal runs of characters other than white
\* space, from left to right.
TokenStarts(text) ==
    {i \in 1..Len(text) : text[i] # " " /\ (i = 1 \/ text[i - 1] = " ")}
TokenEnd(text, i) ==
    CHOOSE j \in i..Len(text) :
        /\ \A k \in i..j : text[k] # " "
        /\ j = Len(text) \/ text[j + 1] = " "
Tokens(text) ==
    [n \in 1..Cardinality(TokenStarts(text)) |->
        LET i == CHOOSE i \in TokenStarts(text) :
                     Cardinality({k \in TokenStarts(text) : k <= i}) = n
        IN  SubSeq(text, i, TokenEnd(text, i))]

\* The candidate list as described: the words, then the tokens of the text,
\* all in lower case, without the terms of fewer than three characters.
LongTerms(terms) ==
    LET kept == {i \in 1..Len(terms) : Len(terms[i]) > 2}
    IN  [n \in 1..Cardinality(kept) |->
            terms[CHOOSE i \in kept : Cardinality({k \in kept : k <= i}) = n]]
WordsThenTokens ==
    LongTerms([i \in 1..Len(call.words) |-> toLowerCase(call.words[i])]
                  \o Tokens(toLowerCase(call.text)))

\* C31: the candidate list of identifyPokemon is the lowercased words followed
\* by the lowercased tokens of the text, terms of length <= 2 left out; when a
\* candidate is a key of the name map, the exact pass selects the canonical
\* name stored under the first such candidate, with confidence 1.
C31_WordsBeforeTextTokens ==
    call.op = "identifyPokemon" /\ call.pc = "returned"
    /\ call.cache # "fetchFails" =>
        LET terms == WordsThenTokens
            hits == {i \in 1..Len(terms) :
                        \E k \in 1..Len(call.nameMap) :
                            call.nameMap[k].key = terms[i]}
        IN  /\ CandidateTerms = terms
            /\ hits # {} =>
                   LET i == CHOOSE i \in hits : \A j \in hits : i <= j
                   IN  /\ call.bestMatch.found
                       /\ call.bestMatch.confidence = <<1, 1>>
                       /\ \E k \in 1..Len(call.nameMap) :
                              /\ call.nameMap[k].key = terms[i]
                              /\ call.nameMap[k].value = call.bestMatch.name

\* A word spelled with a capital is the key of one name and a token of the
\* text the key of another; the name of the word was selected.
C31_Witness ==
    /\ call.op = "identifyPokemon" /\ call.pc = "returned"
    /\ Len(call.words) = 1 /\ call.words[1] # toLowerCase(call.words[1])
    /\ call.bestMatch.found
    /\ call.bestMatch.name = call.words[1]
    /\ \E t \in 1..Len(Tokens(toLowerCase(call.text))) :
           \E k \in 1..Len(call.nameMap) :
               /\ call.nameMap[k].key = Tokens(toLowerCase(call.text))[t]
               /\ call.nameMap[k].value # call.bestMatch.name

\* C36: a published snapshot with status "identified" holds a match, and one
\* with status "identification-failed" holds none.
C36_StatusAgreesWithMatch ==
    /\ result.status = "identified" => result.pokemonMatch # Null
    /\ result.status = "identification-failed" => result.pokemonMatch = Null

\* A tick that ran the detector and the matcher replaced a snapshot holding a
\* text by an identification.
C36_Witness ==
    /\ obs.byTick /\ obs.detRan /\ obs.idRan /\ obs.prevHadText
    /\ result.status = "identified"
    /\ result.pokemonMatch \in PokemonMatches

\* C37: the lifecycle state is "scanning" exactly when a tick of scanFrame is
\* scheduled or in flight.
C37_ScanningIffLoopAlive ==
    processState = "scanning" <=> frames # {} \/ inflight # {}

\* C35: the region handed to extractText is a detection of the tick whose area
\* no other detection exceeds, and the first such detection of the list.
C35_FirstLargestRegion ==
    call.op = "largestDetection" /\ call.pc = "returned" =>
        \E i \in 1..Len(call.detections) :
            /\ call.largestDetection = call.detections[i]
            /\ \A j \in 1..Len(call.detections) :
                   /\ call.detections[j].width * call.detections[j].height
                          <= call.detections[i].width * call.detections[i].height
                   /\ call.detections[j].width * call.detections[j].height
                          = call.detections[i].width * call.detections[i].height
                          => i <= j

\* The region is the second of three detections: larger than the first, as
\* large as the third.
C35_Witness ==
    /\ call.op = "largestDetection" /\ call.pc = "returned"
    /\ Len(call.detections) = 3
    /\ call.largestDetection = call.detections[2]
    /\ call.detections[3].width * call.detections[3].height
           = call.detections[2].width * call.detections[2].height
    /\ call.detections[3].width # call.detections[2].width

\* The cache a call of initialize found: what the call before it left.
CacheBefore(n) == IF n = 1 THEN call.cache ELSE call.after[n - 1]
\* The call went past the check of the cache, to the fetch.
Fetched(n) ==
    \/ call.forceRefresh[n]
    \/ Len(CacheBefore(n).nameMap) = 0
    \/ Epoch + (n - 1) * call.elapsed - CacheBefore(n).lastUpdated >= cacheExpiryMs

\* C38: a call of initialize whose fetch fails throws, sets the status to
\* "error", and leaves the name map, the details cache and lastUpdated as it
\* found them.
C38_FailedRefreshKeepsCache ==
    call.op = "initialize" =>
        \A n \in 1..call.runs :
            Fetched(n) /\ ~call.fetchOk[n] =>
                /\ call.threw[n]
                /\ call.status[n] = "error"
                /\ call.after[n] = CacheBefore(n)

\* A call found a filled cache past its expiry, with details, and its fetch
\* failed.
C38_Witness ==
    /\ call.op = "initialize" /\ call.runs = 2
    /\ ~call.forceRefresh[2] /\ ~call.fetchOk[2] /\ call.threw[2]
    /\ ~call.threw[1]
    /\ call.after[2].nameMap # <<>>
    /\ call.after[2].detailsMap # {}
    /\ call.status[2] = "error"

\* What scanFrame receives from a call of identifyPokemon.
AwaitedMatch ==
    IF call.returned.found THEN CHOOSE m \in PokemonMatches : TRUE ELSE Null

\* C39: when identifyPokemon has selected a name and the fetch of its details
\* fails, it returns null and does not throw, the details cache gets no entry,
\* and the tick that awaits it takes the status "identification-failed".
C39_FailedDetailsGiveNoMatch ==
    /\ call.op = "identifyPokemon" /\ call.pc = "returned"
    /\ call.bestMatch.found /\ ~call.detailsOk
    => /\ ~call.returned.found
       /\ ~call.threw
       /\ call.detailsMap = {}
       /\ AwaitedMatch = Null
       /\ IdentificationStatus(AwaitedMatch) = "identification-failed"

\* The fuzzy pass selected a name for a call whose detail fetch fails, and the
\* call returned null.
C39_Witness ==
    /\ call.op = "identifyPokemon" /\ call.pc = "returned"
    /\ call.bestMatch.found /\ call.fuzzyPass /\ ~call.detailsOk
    /\ ~call.returned.found /\ call.detailsMap = {}

\* C32: between two calls of clearCache no name is fetched with success more
\* than once.
C32_FetchedOncePerName ==
    call.op = "getPokemonDetails" => ~call.fetchedTwice

\* C33: no fetch of getPokemonDetails is issued less than rateLimitMs after
\* the fetch before it.
C33_FetchesApart ==
    call.op = "getPokemonDetails" => call.gapOk

\* C34: whenever identifyPokemon reads the name map, with refreshes running
\* beside it, the map holds all and only the names of the last list fetched
\* with success (the map from before the calls when there is none), and it is
\* empty only when no list has been fetched yet.
C34_ReadsCompleteMap ==
    call.op = "refresh" /\ call.read.point # "none"
    => /\ call.read.map = call.read.complete
       /\ call.read.map = <<>> => ~call.read.refreshed

\* identifyPokemon found the map empty and awaited its own initialize();
\* meanwhile another caller's refresh filled the map, and the loops then read
\* a map of two names.
C34_Witness ==
    /\ call.op = "refresh"
    /\ call.read.point = "loops" /\ call.during
    /\ Len(call.read.map) = 2
    /\ Len(call.cache.nameMap) = 2

=============================================================================
